---------------------------- MODULE Spec2Model ----------------------------
(***************************************************************************)
(* Answer Verification Engine of the Italian learning companion:           *)
(* check_answer(user_answer, correct_answer, question_type) of app.py and  *)
(* the helpers it is built from.  Text is modelled by TLA+ strings, which  *)
(* TLC treats as sequences of characters (Len, Head, Tail, SubSeq, \o).    *)
(***************************************************************************)
EXTENDS Naturals, Integers, Sequences, FiniteSets, TLC

VARIABLES
    user_answer,         \* argument of check_answer
    correct_answer,      \* argument of check_answer
    question_type,       \* argument of check_answer ("none" stands for None)
    pc,                  \* position inside check_answer
    user_normalized,     \* locals of check_answer, set by the Normalize step
    correct_normalized,
    user_with_digits,
    correct_with_digits,
    user_with_words,
    correct_with_words,
    is_correct,          \* first component of the returned tuple
    display_answer,      \* second component of the returned tuple
    rule,                \* which return statement / rule produced the verdict
    other_call,          \* frame of a second invocation running in another worker
    script,              \* SpecRunning only: the frames this invocation goes
                         \* through next, worked out when it was entered
    session,             \* the practice keys of the Flask session
    practice_sessions,   \* rows of the database table practice_sessions
    request,             \* the route of the request handled last
    response             \* what that request was answered with

vars == <<user_answer, correct_answer, question_type, pc, user_normalized,
          correct_normalized, user_with_digits, correct_with_digits,
          user_with_words, correct_with_words, is_correct, display_answer, rule,
          other_call, script, session, practice_sessions, request, response>>

-----------------------------------------------------------------------------
(* Characters and the Python string primitives used by the engine.         *)

Char(s, i) == SubSeq(s, i, i)

CharsOf(s) == {Char(s, i) : i \in 1..Len(s)}

\* What str.strip(), str.split() and the regex class \s treat as blank.
WhitespaceChars == {" ", "\t"}

LowercaseLetters == "abcdefghijklmnopqrstuvwxyzàáèéìíòóùú"
UppercaseLetters == "ABCDEFGHIJKLMNOPQRSTUVWXYZÀÁÈÉÌÍÒÓÙÚ"
DigitChars == "0123456789"

\* The regex class \w (letters, digits, underscore), on which \b is built.
WordChars ==
    CharsOf(LowercaseLetters) \cup CharsOf(UppercaseLetters)
        \cup CharsOf(DigitChars) \cup {"_"}

\* string.punctuation (its grave accent cannot be written in a TLA+ string and
\* is outside the alphabet of the model).
Punctuation ==
    {"!", "\"", "#", "$", "%", "&", "'", "(", ")", "*", "+", ",", "-", ".", "/",
     ":", ";", "<", "=", ">", "?", "@", "[", "\\", "]", "^", "_", "{", "|", "}", "~"}

LowerMap ==
    [c \in CharsOf(UppercaseLetters) |->
        Char(LowercaseLetters,
             CHOOSE i \in 1..Len(UppercaseLetters) : Char(UppercaseLetters, i) = c)]

LowerChar(c) == IF c \in DOMAIN LowerMap THEN LowerMap[c] ELSE c

\* str.lower()
RECURSIVE lower(_)
lower(s) == IF s = "" THEN "" ELSE LowerChar(Head(s)) \o lower(Tail(s))

RECURSIVE lstrip(_)
lstrip(s) ==
    IF s # "" /\ Head(s) \in WhitespaceChars THEN lstrip(Tail(s)) ELSE s

RECURSIVE rstrip(_)
rstrip(s) ==
    IF s # "" /\ Char(s, Len(s)) \in WhitespaceChars
    THEN rstrip(SubSeq(s, 1, Len(s) - 1))
    ELSE s

\* str.strip()
strip_leading_only(s) == lstrip(s)

strip(s) == rstrip(lstrip(s))

\* str.startswith(prefix)
startswith(s, prefix) ==
    Len(prefix) <= Len(s) /\ SubSeq(s, 1, Len(prefix)) = prefix

\* s[n:]
DropPrefix(s, n) == SubSeq(s, n + 1, Len(s))

\* str.lstrip(chars): drops every leading character that is in chars.
RECURSIVE lstrip_chars(_, _)
lstrip_chars(s, chars) ==
    IF s # "" /\ Head(s) \in CharsOf(chars)
    THEN lstrip_chars(Tail(s), chars)
    ELSE s

\* str.replace(old, new): the leftmost occurrence is replaced, and the scan
\* goes on behind it (occurrences do not overlap).
RECURSIVE replace_from(_, _, _, _)
replace_from(text, i, old, new) ==
    LET found == {j \in i..(Len(text) - Len(old) + 1) :
                     SubSeq(text, j, j + Len(old) - 1) = old}
    IN  IF found = {} THEN SubSeq(text, i, Len(text))
        ELSE LET j == CHOOSE m \in found : \A n \in found : m <= n
             IN  SubSeq(text, i, j - 1) \o new
                     \o replace_from(text, j + Len(old), old, new)

replace(text, old, new) == replace_from(text, 1, old, new)

\* str.split(): the maximal runs of non-blank characters.
RECURSIVE split_ws(_, _)
split_ws(rest, cur) ==
    IF rest = "" THEN (IF cur = "" THEN <<>> ELSE <<cur>>)
    ELSE IF Head(rest) \in WhitespaceChars
         THEN (IF cur = "" THEN <<>> ELSE <<cur>>) \o split_ws(Tail(rest), "")
         ELSE split_ws(Tail(rest), cur \o Head(rest))

split(s) == split_ws(s, "")

\* str.translate(str.maketrans('', '', string.punctuation))
strip_punct_keeping_all(s) == s

RECURSIVE strip_punct(_)
strip_punct(s) ==
    IF s = "" THEN ""
    ELSE (IF Head(s) \in Punctuation THEN "" ELSE Head(s)) \o strip_punct(Tail(s))

\* x in list
InList(x, list) == \E i \in 1..Len(list) : list[i] = x

ToSet(list) == {list[i] : i \in 1..Len(list)}

-----------------------------------------------------------------------------
(* remove_accents                                                          *)

accent_map ==
    << <<"à", "a">>, <<"á", "a">>,
       <<"è", "e">>, <<"é", "e">>,
       <<"ì", "i">>, <<"í", "i">>,
       <<"ò", "o">>, <<"ó", "o">>,
       <<"ù", "u">>, <<"ú", "u">> >>

RECURSIVE ReplaceEach(_, _, _)
ReplaceEach(text, table, k) ==
    IF k > Len(table) \/ text = "" THEN text
    ELSE ReplaceEach(replace(text, table[k][1], table[k][2]), table, k + 1)

remove_accents_lowercase_only(text) == lower(text)

remove_accents(text) == ReplaceEach(lower(text), accent_map, 1)

-----------------------------------------------------------------------------
(* _norm: the normalizer of check_answer                                   *)

\* re.sub(r"'\s+", "'", s)
RECURSIVE CollapseOneBlankAfterApostrophe(_)
CollapseOneBlankAfterApostrophe(s) ==
    IF s = "" THEN ""
    ELSE IF Head(s) = "'" /\ Len(s) >= 2 /\ Char(s, 2) \in WhitespaceChars
         THEN "'" \o CollapseOneBlankAfterApostrophe(Tail(Tail(s)))
         ELSE Head(s) \o CollapseOneBlankAfterApostrophe(Tail(s))

RECURSIVE CollapseApostropheSpace(_)
CollapseApostropheSpace(s) ==
    IF s = "" THEN ""
    ELSE IF Head(s) = "'" /\ Len(s) >= 2 /\ Char(s, 2) \in WhitespaceChars
         THEN "'" \o CollapseApostropheSpace(lstrip(Tail(s)))
         ELSE Head(s) \o CollapseApostropheSpace(Tail(s))

_norm(s) == CollapseApostropheSpace(remove_accents(lower(strip(s))))

-----------------------------------------------------------------------------
(* Number words and digits                                                 *)

number_words ==
    << <<"zero", "0">>, <<"one", "1">>, <<"two", "2">>, <<"three", "3">>,
       <<"four", "4">>, <<"five", "5">>, <<"six", "6">>, <<"seven", "7">>,
       <<"eight", "8">>, <<"nine", "9">>, <<"ten", "10">>, <<"eleven", "11">>,
       <<"twelve", "12">>, <<"thirteen", "13">>, <<"fourteen", "14">>,
       <<"fifteen", "15">>, <<"sixteen", "16">>, <<"seventeen", "17">>,
       <<"eighteen", "18">>, <<"nineteen", "19">>, <<"twenty", "20">>,
       <<"twenty-one", "21">>, <<"twenty-two", "22">>, <<"twenty-three", "23">>,
       <<"twenty-four", "24">>, <<"twenty-five", "25">>, <<"twenty-six", "26">>,
       <<"twenty-seven", "27">>, <<"twenty-eight", "28">>, <<"twenty-nine", "29">>,
       <<"thirty", "30">>, <<"forty", "40">>, <<"fifty", "50">>, <<"sixty", "60">>,
       <<"seventy", "70">>, <<"eighty", "80">>, <<"ninety", "90">>,
       <<"hundred", "100">> >>

\* The regex assertion \b between positions p and p+1 of text.
IsWordAt(text, p) == p >= 1 /\ p <= Len(text) /\ Char(text, p) \in WordChars

WordBoundary(text, p) == IsWordAt(text, p) # IsWordAt(text, p + 1)

MatchAt(text, i, pat) ==
    /\ i + Len(pat) - 1 <= Len(text)
    /\ Char(text, i) = Head(pat)
    /\ SubSeq(text, i, i + Len(pat) - 1) = pat
    /\ WordBoundary(text, i - 1)
    /\ WordBoundary(text, i + Len(pat) - 1)

\* re.sub(r'\b' + pat + r'\b', repl, text): the leftmost match at or after
\* position i is replaced, and the scan goes on behind it.
RECURSIVE ReSubFrom(_, _, _, _)
ReSubFrom(text, i, pat, repl) ==
    LET found == {j \in i..Len(text) : MatchAt(text, j, pat)}
    IN  IF found = {} THEN SubSeq(text, i, Len(text))
        ELSE LET j == CHOOSE m \in found : \A n \in found : m <= n
             IN  SubSeq(text, i, j - 1) \o repl
                     \o ReSubFrom(text, j + Len(pat), pat, repl)

re_sub_word(pat, repl, text) == ReSubFrom(text, 1, pat, repl)

\* for word, digit in number_words.items(): text = re.sub(\bword\b, digit, text)
RECURSIVE SubEachWord(_, _)
SubEachWord(text, k) ==
    IF k > Len(number_words) \/ text = "" THEN text
    ELSE SubEachWord(re_sub_word(number_words[k][1], number_words[k][2], text),
                     k + 1)

normalize_numbers(text) == SubEachWord(text, 1)

\* digit_to_word = {v: k for k, v in number_words.items()}, as the list of its
\* items in insertion order, digit first.
digit_to_word == [k \in 1..Len(number_words) |->
                     <<number_words[k][2], number_words[k][1]>>]

LongestKey(table) ==
    CHOOSE n \in 0..8 :
        /\ \A k \in 1..Len(table) : Len(table[k][1]) <= n
        /\ (n = 0 \/ \E k \in 1..Len(table) : Len(table[k][1]) = n)

\* sorted(digit_to_word.keys(), key=len, reverse=True): a stable sort, so keys
\* of one length keep their insertion order.
RECURSIVE ByLengthDesc(_, _)
ByLengthDesc(table, n) ==
    IF n = 0 THEN <<>>
    ELSE SelectSeq(table, LAMBDA e : Len(e[1]) = n) \o ByLengthDesc(table, n - 1)

sorted_digits == ByLengthDesc(digit_to_word, LongestKey(digit_to_word))

RECURSIVE SubEachDigit(_, _)
SubEachDigit(text, k) ==
    IF k > Len(sorted_digits) \/ text = "" THEN text
    ELSE SubEachDigit(re_sub_word(sorted_digits[k][1], sorted_digits[k][2], text),
                      k + 1)

\* Mutant: the digits are replaced wherever they occur.
denormalize_numbers_replacing_substrings(text) ==
    LET RECURSIVE Each(_, _)
        Each(t, k) ==
            IF k > Len(sorted_digits) \/ t = "" THEN t
            ELSE Each(replace(t, sorted_digits[k][1], sorted_digits[k][2]), k + 1)
    IN  Each(text, 1)

denormalize_numbers(text) == SubEachDigit(text, 1)

-----------------------------------------------------------------------------
(* Python dict literals are written as the list of their items, in source  *)
(* order; AsDict turns one into a function and Get is dict.get(key, []).   *)

AsDict(items) ==
    [key \in {items[i][1] : i \in 1..Len(items)} |->
        items[CHOOSE i \in 1..Len(items) : items[i][1] = key][2]]

Get(dict, key) == IF key \in DOMAIN dict THEN dict[key] ELSE <<>>

\* any(P(x) for x in list)
AnyOf(list, P(_)) == \E i \in 1..Len(list) : P(list[i])

\* sum(1 for x in list if P(x))
Count(list, P(_)) == Cardinality({i \in 1..Len(list) : P(list[i])})

\* needle in haystack, for strings
Contains(haystack, needle) ==
    \E i \in 1..(Len(haystack) - Len(needle) + 1) :
        SubSeq(haystack, i, i + Len(needle) - 1) = needle

\* str(list) of a list of strings without quotes or backslashes in them
RECURSIVE JoinQuoted(_, _)
JoinQuoted(list, k) ==
    IF k > Len(list) THEN ""
    ELSE (IF k > 1 THEN ", " ELSE "") \o "'" \o list[k] \o "'"
             \o JoinQuoted(list, k + 1)

str_list(list) == "[" \o JoinQuoted(list, 1) \o "]"

-----------------------------------------------------------------------------
(* Sentence-translation path (question_type = 'sentence_translation')      *)

stopwords ==
    {"the", "a", "an", "is", "am", "are", "was", "were", "be", "been",
     "being", "il", "lo", "la", "i", "gli", "le", "l'", "un", "una", "uno",
     "di", "da", "in", "con", "su", "per", "tra", "fra", "to", "at", "on",
     "of", "from", "with", "by", "for"}

synonyms_items ==
    <<
       <<"cinema", <<"movies", "movie", "theater", "theatre">>>>,
       <<"movies", <<"cinema", "movie", "theater", "theatre">>>>,
       <<"movie", <<"cinema", "movies", "theater", "theatre">>>>,
       <<"theater", <<"cinema", "movies", "movie", "theatre">>>>,
       <<"go", <<"going", "went">>>>,
       <<"went", <<"go", "going">>>>,
       <<"going", <<"go", "went">>>>,
       <<"tired", <<"sleepy", "exhausted">>>>,
       <<"hungry", <<"starving">>>>,
       <<"thirsty", <<"parched">>>>
    >>

synonyms == AsDict(synonyms_items)

\* The share of matching content words asked for by the forward and by the
\* reverse check: similarity >= 0.5 and reverse_similarity >= 0.6, in percent.
ForwardThresholdPct == 50
ReverseThresholdPct == 60

\* [w for w in text.translate(...).split() if w not in stopwords]
content_words(text) ==
    SelectSeq(split(strip_punct(text)), LAMBDA w : w \notin stopwords)

\* correct_word in user_content_words, or one of its synonyms is
forward_match(correct_word, user_content_words) ==
    \/ InList(correct_word, user_content_words)
    \/ /\ correct_word \in DOMAIN synonyms
       /\ AnyOf(synonyms[correct_word], LAMBDA syn : InList(syn, user_content_words))

matches(user_content_words, correct_content_words) ==
    Count(correct_content_words, LAMBDA w : forward_match(w, user_content_words))

\* word in correct_content_words or word in str(synonyms.get(word, []))
reverse_match(word, correct_content_words) ==
    \/ InList(word, correct_content_words)
    \/ Contains(str_list(Get(synonyms, word)), word)

reverse_matches(user_content_words, correct_content_words) ==
    Count(user_content_words, LAMBDA w : reverse_match(w, correct_content_words))

forward_accepts_above_half_only(user_content_words, correct_content_words) ==
    /\ Len(correct_content_words) > 0
    /\ 100 * matches(user_content_words, correct_content_words)
           > ForwardThresholdPct * Len(correct_content_words)

forward_accepts(user_content_words, correct_content_words) ==
    /\ Len(correct_content_words) > 0
    /\ 100 * matches(user_content_words, correct_content_words)
           >= ForwardThresholdPct * Len(correct_content_words)

reverse_accepts(user_content_words, correct_content_words) ==
    /\ Len(user_content_words) > 0
    /\ Len(correct_content_words) > 0
    /\ 100 * reverse_matches(user_content_words, correct_content_words)
           >= ReverseThresholdPct * Len(user_content_words)

\* Which of the two return statements of the sentence block is taken, if any.
sentence_rule(user_digits, correct_digits) ==
    LET user_content_words == content_words(user_digits)
        correct_content_words == content_words(correct_digits)
    IN  IF forward_accepts(user_content_words, correct_content_words)
        THEN "sentence_forward"
        ELSE IF reverse_accepts(user_content_words, correct_content_words)
             THEN "sentence_reverse"
             ELSE "none"

-----------------------------------------------------------------------------
(* Negation path (question_type = 'negation')                              *)

negation_accepts(user_norm, correct_norm) ==
    strip_punct(user_norm) = strip_punct(correct_norm)

-----------------------------------------------------------------------------
(* Standard path: variants, synonyms, subset extension                     *)

\* re.split(r'/|,\s*', s)
RECURSIVE re_split_from(_, _)
re_split_from(rest, cur) ==
    IF rest = "" THEN <<cur>>
    ELSE IF Head(rest) = "/"
         THEN <<cur>> \o re_split_from(Tail(rest), "")
         ELSE IF Head(rest) = ","
              THEN <<cur>> \o re_split_from(lstrip(Tail(rest)), "")
              ELSE re_split_from(Tail(rest), cur \o Head(rest))

raw_answers(correct) == re_split_from(correct, "")

acceptable_answers(correct) ==
    LET raw == raw_answers(correct)
    IN  [k \in 1..Len(raw) |-> remove_accents(lower(strip(raw[k])))]

article_prefixes == <<"il ", "la ", "i ", "gli ", "le ", "l'">>

\* ' ' not in ans and not ans.startswith(('il ', 'la ', 'i ', 'gli ', 'le ', "l'"))
looks_like_verb(ans) ==
    /\ " " \notin CharsOf(ans)
    /\ ~AnyOf(article_prefixes, LAMBDA p : startswith(ans, p))

variants_without_infinitive_marker(ans) == <<ans, normalize_numbers(ans)>>

\* What one acceptable answer appends to all_acceptable.
variants(ans) ==
    <<ans, normalize_numbers(ans)>> \o
    (IF startswith(ans, "to ")
     THEN <<DropPrefix(ans, 3), normalize_numbers(DropPrefix(ans, 3))>>
     ELSE IF looks_like_verb(ans)
          THEN <<"to " \o ans, "to " \o normalize_numbers(ans)>>
          ELSE <<>>)

RECURSIVE FlatMap(_, _, _)
FlatMap(list, F(_), k) ==
    IF k > Len(list) THEN <<>> ELSE F(list[k]) \o FlatMap(list, F, k + 1)

all_acceptable(correct) == FlatMap(acceptable_answers(correct), variants, 1)

number_forms_digits_only(acc) == <<acc, normalize_numbers(acc)>>

number_forms(acc) == <<acc, normalize_numbers(acc), denormalize_numbers(acc)>>

all_acceptable_normalized(correct) ==
    FlatMap(all_acceptable(correct), number_forms, 1)

variant_match(user_norm, user_digits, user_words, correct) ==
    LET accepted == ToSet(all_acceptable_normalized(correct))
    IN  user_norm \in accepted \/ user_digits \in accepted \/ user_words \in accepted

vocab_synonyms_items ==
    <<
       <<"small", <<"little", "tiny", "petite">>>>,
       <<"little", <<"small", "tiny">>>>,
       <<"big", <<"large", "great">>>>,
       <<"large", <<"big", "great">>>>,
       <<"bike", <<"bicycle", "bici">>>>,
       <<"bicycle", <<"bike", "bici">>>>,
       <<"bici", <<"bicycle", "bike", "bicicletta">>>>,
       <<"bicicletta", <<"bike", "bicycle", "bici">>>>,
       <<"to go", <<"to leave", "to walk">>>>,
       <<"to look", <<"to watch", "to see">>>>,
       <<"to see", <<"to look", "to watch">>>>,
       <<"to wish", <<"to want", "to desire">>>>,
       <<"to want", <<"to wish", "to desire">>>>,
       <<"to speak", <<"to talk", "to say">>>>,
       <<"to talk", <<"to speak", "to chat">>>>,
       <<"to listen", <<"to hear">>>>,
       <<"to hear", <<"to listen">>>>,
       <<"to get", <<"to obtain", "to receive", "to take">>>>,
       <<"to take", <<"to get", "to grab">>>>,
       <<"to like", <<"to enjoy", "to love">>>>,
       <<"to enjoy", <<"to like", "to love">>>>,
       <<"to begin", <<"to start">>>>,
       <<"to start", <<"to begin">>>>,
       <<"to finish", <<"to end", "to complete">>>>,
       <<"to end", <<"to finish", "to complete">>>>,
       <<"to live", <<"to reside">>>>,
       <<"to work", <<"to labour", "to labor">>>>,
       <<"to wait", <<"to wait for">>>>,
       <<"to wait for", <<"to wait">>>>,
       <<"to know", <<"to understand", "to recognise", "to recognize">>>>,
       <<"to understand", <<"to know", "to comprehend">>>>,
       <<"to help", <<"to assist", "to aid">>>>,
       <<"to try", <<"to attempt">>>>,
       <<"to walk", <<"to go on foot", "to stroll">>>>,
       <<"beautiful", <<"pretty", "lovely", "gorgeous">>>>,
       <<"pretty", <<"beautiful", "lovely">>>>,
       <<"lovely", <<"beautiful", "pretty">>>>,
       <<"happy", <<"glad", "joyful", "pleased">>>>,
       <<"glad", <<"happy", "pleased">>>>,
       <<"sad", <<"unhappy", "upset">>>>,
       <<"tired", <<"exhausted", "sleepy", "weary">>>>,
       <<"angry", <<"upset", "annoyed", "cross">>>>,
       <<"correct", <<"right">>>>,
       <<"right", <<"correct">>>>,
       <<"wrong", <<"incorrect">>>>,
       <<"incorrect", <<"wrong">>>>,
       <<"fast", <<"quick", "rapid">>>>,
       <<"quick", <<"fast", "rapid">>>>,
       <<"slow", <<"sluggish">>>>,
       <<"mum", <<"mom", "mother", "mamma">>>>,
       <<"mom", <<"mum", "mother", "mamma">>>>,
       <<"mother", <<"mum", "mom", "mamma">>>>,
       <<"dad", <<"father", "papa", "papà">>>>,
       <<"father", <<"dad", "papa", "papà">>>>,
       <<"flat", <<"apartment">>>>,
       <<"apartment", <<"flat">>>>,
       <<"shop", <<"store", "negozio">>>>,
       <<"store", <<"shop">>>>,
       <<"film", <<"movie", "cinema">>>>,
       <<"movie", <<"film", "cinema">>>>,
       <<"friend", <<"mate", "pal">>>>,
       <<"holiday", <<"vacation", "holidays">>>>,
       <<"vacation", <<"holiday", "holidays">>>>,
       <<"holidays", <<"holiday", "vacation">>>>,
       <<"autumn", <<"fall">>>>,
       <<"fall", <<"autumn">>>>,
       <<"lift", <<"elevator">>>>,
       <<"elevator", <<"lift">>>>,
       <<"jumper", <<"sweater", "pullover">>>>,
       <<"sweater", <<"jumper", "pullover">>>>,
       <<"trousers", <<"pants">>>>,
       <<"pants", <<"trousers">>>>,
       <<"chemist", <<"pharmacy", "pharmacist">>>>,
       <<"pharmacy", <<"chemist", "drugstore">>>>,
       <<"theatre", <<"theater">>>>,
       <<"theater", <<"theatre">>>>,
       <<"colour", <<"color">>>>,
       <<"color", <<"colour">>>>,
       <<"neighbour", <<"neighbor">>>>,
       <<"neighbor", <<"neighbour">>>>,
       <<"travelling", <<"traveling">>>>,
       <<"traveling", <<"travelling">>>>,
       <<"rubbish", <<"garbage", "trash">>>>,
       <<"garbage", <<"rubbish", "trash">>>>,
       <<"trash", <<"rubbish", "garbage">>>>,
       <<"mobile phone", <<"cell phone", "cellphone", "mobile">>>>,
       <<"cell phone", <<"mobile phone", "mobile">>>>,
       <<"mobile", <<"mobile phone", "cell phone">>>>,
       <<"football", <<"soccer">>>>,
       <<"soccer", <<"football">>>>,
       <<"post office", <<"mail office">>>>,
       <<"town hall", <<"city hall">>>>,
       <<"city hall", <<"town hall">>>>,
       <<"illness", <<"sickness", "disease">>>>,
       <<"sickness", <<"illness", "disease">>>>,
       <<"disease", <<"illness", "sickness">>>>,
       <<"stomach ache", <<"stomachache", "stomach pain">>>>,
       <<"stomachache", <<"stomach ache", "stomach pain">>>>,
       <<"headache", <<"head ache">>>>,
       <<"toothache", <<"tooth ache">>>>,
       <<"clever", <<"intelligent", "smart", "bright">>>>,
       <<"intelligent", <<"clever", "smart", "bright">>>>,
       <<"smart", <<"clever", "intelligent">>>>,
       <<"hardworking", <<"diligent", "studious", "hard-working">>>>,
       <<"diligent", <<"hardworking", "studious">>>>,
       <<"brave", <<"courageous", "bold">>>>,
       <<"courageous", <<"brave", "bold">>>>,
       <<"kind", <<"nice", "gentle", "caring">>>>,
       <<"gentle", <<"kind", "nice">>>>,
       <<"selfish", <<"self-centred", "self-centered">>>>,
       <<"shy", <<"timid", "bashful">>>>,
       <<"timid", <<"shy", "bashful">>>>
    >>

vocab_synonyms == AsDict(vocab_synonyms_items)

\* s.lstrip('to ') if s.startswith('to ') else s
strip_to(s) == IF startswith(s, "to ") THEN lstrip_chars(s, "to ") ELSE s

\* s[4:] if s.startswith('the ') else s
strip_the(s) == IF startswith(s, "the ") THEN DropPrefix(s, 4) ELSE s

Map(list, F(_)) == [k \in 1..Len(list) |-> F(list[k])]

\* The body of the loop "for acc in all_acceptable" of the synonym check.
synonym_hit(user_norm, acc) ==
    LET user_strip == strip_to(user_norm)
        user_no_the == strip_the(user_norm)
        acc_strip == strip_to(acc)
        acc_no_the == strip_the(acc)
        syns == Get(vocab_synonyms, acc) \o Get(vocab_synonyms, acc_no_the)
                    \o Get(vocab_synonyms, "to " \o acc_strip)
        syns_no_the == Map(syns, strip_the)
    IN  \/ InList(user_norm, syns)
        \/ InList(user_strip, Map(syns, LAMBDA s : lstrip_chars(s, "to ")))
        \/ InList(user_no_the, syns_no_the)

synonym_match(user_norm, correct) ==
    AnyOf(all_acceptable(correct), LAMBDA acc : synonym_hit(user_norm, acc))

\* Bug-0125: a longer answer that holds every word of the correct answer.
subset_extension_either_way(user_norm, correct_norm) ==
    LET correct_words_set == ToSet(split(correct_norm))
        user_words_set == ToSet(split(user_norm))
    IN  /\ correct_words_set # {}
        /\ \/ correct_words_set \subseteq user_words_set
           \/ user_words_set \subseteq correct_words_set
        /\ user_words_set # correct_words_set

subset_extension(user_norm, correct_norm) ==
    LET correct_words_set == ToSet(split(correct_norm))
        user_words_set == ToSet(split(user_norm))
    IN  /\ correct_words_set # {}
        /\ correct_words_set \subseteq user_words_set
        /\ Cardinality(user_words_set) > Cardinality(correct_words_set)

\* The rule of the standard path that makes is_correct true, "none" if none does.
standard_rule(user_norm, user_digits, user_words, correct_norm, correct) ==
    IF variant_match(user_norm, user_digits, user_words, correct) THEN "variant"
    ELSE IF synonym_match(user_norm, correct) THEN "synonym"
    ELSE IF subset_extension(user_norm, correct_norm) THEN "subset"
    ELSE "none"

\* re.split(r'/|,\s*', correct_answer)[0].strip()
\*     if ('/' in correct_answer or ',' in correct_answer) else correct_answer
display(correct) ==
    IF "/" \in CharsOf(correct) \/ "," \in CharsOf(correct)
    THEN strip(raw_answers(correct)[1])
    ELSE correct

-----------------------------------------------------------------------------
(* check_answer as a function of its three arguments                       *)

QuestionTypes == {"none", "sentence_translation", "negation"}

check_answer(user, correct, qtype) ==
    LET user_norm == _norm(user)
        correct_norm == _norm(correct)
        user_digits == normalize_numbers(user_norm)
        correct_digits == normalize_numbers(correct_norm)
        user_words == denormalize_numbers(user_norm)
        by_sentence == IF qtype = "sentence_translation"
                       THEN sentence_rule(user_digits, correct_digits)
                       ELSE "none"
        by_standard == standard_rule(user_norm, user_digits, user_words,
                                     correct_norm, correct)
    IN  IF by_sentence # "none"
        THEN [is_correct |-> TRUE, display_answer |-> correct, rule |-> by_sentence]
        ELSE IF qtype = "negation" /\ negation_accepts(user_norm, correct_norm)
             THEN [is_correct |-> TRUE, display_answer |-> correct,
                   rule |-> "negation"]
             ELSE [is_correct |-> by_standard # "none",
                   display_answer |-> display(correct),
                   rule |-> by_standard]

-----------------------------------------------------------------------------
(* check_answer as a state machine: Start, Normalize, BranchByCategory,    *)
(* the standard path, Decide.                                              *)

\* The frame of an invocation: its arguments, position, locals and result.
Frame(user, correct, qtype, at) ==
    [user_answer |-> user, correct_answer |-> correct, question_type |-> qtype,
     pc |-> at, user_normalized |-> "", correct_normalized |-> "",
     user_with_digits |-> "", correct_with_digits |-> "",
     user_with_words |-> "", correct_with_words |-> "",
     is_correct |-> FALSE, display_answer |-> "", rule |-> "pending"]

\* No second invocation is running.
NoCall == Frame("", "", "none", "Idle")

\* One invocation, entered with its arguments.
Entered(user, correct, qtype) ==
    /\ user_answer = user
    /\ correct_answer = correct
    /\ question_type = qtype
    /\ pc = "Start"
    /\ user_normalized = ""
    /\ correct_normalized = ""
    /\ user_with_digits = ""
    /\ correct_with_digits = ""
    /\ user_with_words = ""
    /\ correct_with_words = ""
    /\ is_correct = FALSE
    /\ display_answer = ""
    /\ rule = "pending"

\* A session without any key of a practice.
NoSession == [key \in {} |-> 0]

\* The web application with no practice going on and nothing recorded.
web == <<session, practice_sessions, request, response>>

NoPractice ==
    /\ session = NoSession
    /\ practice_sessions = <<>>
    /\ request = "none"
    /\ response = [page |-> "none"]

\* One invocation running alone.
Call(user, correct, qtype) ==
    /\ Entered(user, correct, qtype)
    /\ other_call = NoCall
    /\ script = <<>>
    /\ NoPractice

args == <<user_answer, correct_answer, question_type>>

locals == <<user_normalized, correct_normalized, user_with_digits,
            correct_with_digits, user_with_words, correct_with_words>>

result == <<is_correct, display_answer, rule>>

\* What lies outside the frame of this invocation.
outside == <<other_call, script, web>>

\* Lines 628-667: the normalized forms and their number conversions.
Normalize ==
    /\ pc = "Start"
    /\ user_normalized' = _norm(user_answer)
    /\ correct_normalized' = _norm(correct_answer)
    /\ user_with_digits' = normalize_numbers(user_normalized')
    /\ correct_with_digits' = normalize_numbers(correct_normalized')
    /\ user_with_words' = denormalize_numbers(user_normalized')
    /\ correct_with_words' = denormalize_numbers(correct_normalized')
    /\ pc' = "BranchByCategory"
    /\ UNCHANGED <<args, result, outside>>

\* Lines 670-730: return True, correct_answer when enough content words
\* match, otherwise go on to the standard matching.
SentenceTranslation ==
    /\ pc = "BranchByCategory"
    /\ question_type = "sentence_translation"
    /\ \E by \in {sentence_rule(user_with_digits, correct_with_digits)} :
        IF by # "none"
        THEN /\ is_correct' = TRUE
             /\ display_answer' = correct_answer
             /\ rule' = by
             /\ pc' = "Decide"
        ELSE /\ pc' = "Standard"
             /\ UNCHANGED result
    /\ UNCHANGED <<args, locals, outside>>

Negation_without_fall_through ==
    /\ pc = "BranchByCategory"
    /\ question_type = "negation"
    /\ is_correct' = negation_accepts(user_normalized, correct_normalized)
    /\ display_answer' = correct_answer
    /\ rule' = IF is_correct' THEN "negation" ELSE "none"
    /\ pc' = "Decide"
    /\ UNCHANGED <<args, locals, outside>>

\* Lines 734-738: return True, correct_answer when the answers are equal up
\* to punctuation, otherwise go on to the standard matching.
Negation ==
    /\ pc = "BranchByCategory"
    /\ question_type = "negation"
    /\ IF negation_accepts(user_normalized, correct_normalized)
       THEN /\ is_correct' = TRUE
            /\ display_answer' = correct_answer
            /\ rule' = "negation"
            /\ pc' = "Decide"
       ELSE /\ pc' = "Standard"
            /\ UNCHANGED result
    /\ UNCHANGED <<args, locals, outside>>

\* Any other question type goes straight to the standard matching.
OtherType ==
    /\ pc = "BranchByCategory"
    /\ question_type \notin {"sentence_translation", "negation"}
    /\ pc' = "Standard"
    /\ UNCHANGED <<args, locals, result, outside>>

\* Lines 740-948: variants, synonyms, subset extension, display answer.
Standard ==
    /\ pc = "Standard"
    /\ rule' = standard_rule(user_normalized, user_with_digits, user_with_words,
                             correct_normalized, correct_answer)
    /\ is_correct' = (rule' # "none")
    /\ display_answer' = display(correct_answer)
    /\ pc' = "Decide"
    /\ UNCHANGED <<args, locals, outside>>

Next == Normalize \/ SentenceTranslation \/ Negation \/ OtherType \/ Standard

\* The steps of an invocation on its own frame f.
NormalizeFrame(f) ==
    [f EXCEPT !.user_normalized = _norm(f.user_answer),
              !.correct_normalized = _norm(f.correct_answer),
              !.user_with_digits = normalize_numbers(_norm(f.user_answer)),
              !.correct_with_digits = normalize_numbers(_norm(f.correct_answer)),
              !.user_with_words = denormalize_numbers(_norm(f.user_answer)),
              !.correct_with_words = denormalize_numbers(_norm(f.correct_answer)),
              !.pc = "BranchByCategory"]

Returning(f, verdict, shown, by) ==
    [f EXCEPT !.is_correct = verdict, !.display_answer = shown, !.rule = by,
              !.pc = "Decide"]

BranchFrame(f) ==
    IF /\ f.question_type = "sentence_translation"
       /\ sentence_rule(f.user_with_digits, f.correct_with_digits) # "none"
    THEN Returning(f, TRUE, f.correct_answer,
                   sentence_rule(f.user_with_digits, f.correct_with_digits))
    ELSE IF /\ f.question_type = "negation"
            /\ negation_accepts(f.user_normalized, f.correct_normalized)
    THEN Returning(f, TRUE, f.correct_answer, "negation")
    ELSE [f EXCEPT !.pc = "Standard"]

StandardFrame_sharing_normalized_answer(f) ==
    LET by == standard_rule(user_normalized, f.user_with_digits,
                            f.user_with_words, f.correct_normalized,
                            f.correct_answer)
    IN  Returning(f, by # "none", display(f.correct_answer), by)

StandardFrame(f) ==
    LET by == standard_rule(f.user_normalized, f.user_with_digits,
                            f.user_with_words, f.correct_normalized,
                            f.correct_answer)
    IN  Returning(f, by # "none", display(f.correct_answer), by)

Step_failing_on_empty_answer(f) ==
    IF f.pc = "Start" THEN NormalizeFrame(f)
    ELSE IF f.pc = "BranchByCategory" THEN BranchFrame(f)
    ELSE IF f.correct_answer = "" THEN f
    ELSE StandardFrame(f)

\* One step of an invocation on its own frame f: the step Normalize,
\* SentenceTranslation, Negation, OtherType or Standard that f.pc selects.
Step(f) ==
    IF f.pc = "Start" THEN NormalizeFrame(f)
    ELSE IF f.pc = "BranchByCategory" THEN BranchFrame(f)
    ELSE StandardFrame(f)

\* The second invocation takes a step; it touches its own frame only.
OtherWorker ==
    /\ other_call.pc \notin {"Idle", "Decide"}
    /\ other_call' = Step(other_call)
    /\ UNCHANGED <<args, locals, result, pc, script, web>>

NextConcurrent == Next \/ OtherWorker

-----------------------------------------------------------------------------
(* The calls explored.  The correct_answer of a question joins up to        *)
(* MaxAlternatives neighbouring entries of a pool of answers with one      *)
(* delimiter; the learner types one of the forms of one of its entries, the *)
(* whole correct_answer, or something else.                                *)

MaxAlternatives == 2
MaxPad == 2

\* Answers that are none of the alternatives, the empty answer among them.
Distractors == {"tiny", "xyz", ""}

RECURSIVE Join(_, _)
Join(alts, delimiter) ==
    IF Len(alts) = 0 THEN ""
    ELSE IF Len(alts) = 1 THEN alts[1]
    ELSE alts[1] \o delimiter \o Join(Tail(alts), delimiter)

\* n neighbouring entries of the pool, from the i-th on (wrapping around).
Window(pool, i, n) == [k \in 1..n |-> pool[((i + k - 2) % Len(pool)) + 1]]

AnswerLists(pool) ==
    {Window(pool, i, n) : i \in 1..Len(pool), n \in 1..MaxAlternatives}

UserAnswersFor(alts, delimiter, Forms(_)) ==
    {Join(alts, delimiter)} \cup Distractors
        \cup UNION {Forms(alts[k]) : k \in 1..Len(alts)}

Calls(pool, delimiters, Forms(_)) ==
    \E alts \in AnswerLists(pool), k \in 1..Len(delimiters),
       qtype \in QuestionTypes :
        \E user \in UserAnswersFor(alts, delimiters[k], Forms) :
            Call(user, Join(alts, delimiters[k]), qtype)

UpperMap ==
    [c \in CharsOf(LowercaseLetters) |->
        Char(UppercaseLetters,
             CHOOSE i \in 1..Len(LowercaseLetters) : Char(LowercaseLetters, i) = c)]

UpperChar(c) == IF c \in DOMAIN UpperMap THEN UpperMap[c] ELSE c

RECURSIVE ToUpper(_)
ToUpper(s) == IF s = "" THEN "" ELSE UpperChar(Head(s)) \o ToUpper(Tail(s))

Capitalized(s) == IF s = "" THEN "" ELSE UpperChar(Head(s)) \o Tail(s)

AccentedVowels == "àáèéìíòóùú"
PlainVowels == "aaeeiioouu"

PlainOf(v) ==
    Char(PlainVowels,
         CHOOSE i \in 1..Len(AccentedVowels) : Char(AccentedVowels, i) = v)

\* s with every occurrence of the accented vowel v written as its plain vowel.
RECURSIVE Unaccent(_, _)
Unaccent(s, v) ==
    IF s = "" THEN ""
    ELSE (IF Head(s) = v THEN PlainOf(v) ELSE Head(s)) \o Unaccent(Tail(s), v)

RECURSIVE UnaccentFrom(_, _)
UnaccentFrom(s, k) ==
    IF k > Len(AccentedVowels) THEN s
    ELSE UnaccentFrom(Unaccent(s, Char(AccentedVowels, k)), k + 1)

Unaccented(s) == UnaccentFrom(s, 1)

RECURSIVE Blanks(_)
Blanks(n) == IF n = 0 THEN "" ELSE " " \o Blanks(n - 1)

Padded(s, n) == Blanks(n) \o s \o Blanks(n)

WithoutTo(s) == IF startswith(s, "to ") THEN DropPrefix(s, 3) ELSE s

(* Vocabulary questions *)

VocabularyPool ==
    <<"small", "low", "to eat", "to consume", "to wait for", "il libro",
      "l' isola", "caffè", "twenty-seven", "27", "speak", "", "month">>

VocabularyDelimiters == <<"/", ", ", "//">>

VocabularyForms(a) == {a, "to " \o a, WithoutTo(a)}

Init == Calls(VocabularyPool, VocabularyDelimiters, VocabularyForms)

Spec == Init /\ [][Next]_vars

(* Answers with accents, typed with and without them *)

AccentPool ==
    <<"caffè", "città", "perché", "così", "però", "più", "sí", "á", "ó", "ú">>

AccentForms(a) == {a, Unaccented(a), ToUpper(a)}

InitAccents == Calls(AccentPool, <<"/">>, AccentForms)

SpecAccents == InitAccents /\ [][Next]_vars

(* Answers typed in another letter case or with blanks around them *)

CasePool == <<"month", "to eat", "il libro", "caffè", "small">>

CaseForms(a) ==
    {a, ToUpper(a), Capitalized(a)} \cup {Padded(a, n) : n \in 1..MaxPad}

InitCase == Calls(CasePool, <<"/">>, CaseForms)

SpecCase == InitCase /\ [][Next]_vars

(* Numbers: a number word answered in digits, and digits in words *)

InitNumbers ==
    \E k \in 1..Len(number_words), qtype \in QuestionTypes :
        \/ Call(number_words[k][2], number_words[k][1], qtype)
        \/ Call(number_words[k][1], number_words[k][2], qtype)

SpecNumbers == InitNumbers /\ [][Next]_vars

(* Answers with an apostrophe, typed with and without blanks after it *)

\* s with exactly n blanks after each of its apostrophes.
RECURSIVE AfterApostrophe(_, _)
AfterApostrophe(s, n) ==
    IF s = "" THEN ""
    ELSE IF Head(s) = "'"
         THEN "'" \o Blanks(n) \o AfterApostrophe(lstrip(Tail(s)), n)
         ELSE Head(s) \o AfterApostrophe(Tail(s), n)

ApostrophePool == <<"l'isola", "l' isola", "un' amica", "dell'acqua", "l'  età">>

ApostropheForms(a) ==
    {AfterApostrophe(a, n) : n \in 0..MaxPad}
        \cup {Padded(ToUpper(AfterApostrophe(a, MaxPad)), 1)}

InitApostrophes == Calls(ApostrophePool, <<"/">>, ApostropheForms)

SpecApostrophes == InitApostrophes /\ [][Next]_vars

(* Phrases and sentences: every answer of the pool, as it stands, with a    *)
(* final period or with words added, typed for every answer of the pool.   *)

SentencePool ==
    <<"the beach", "the beach and the sea", "I go to the beach every day",
      "I go to the beach", "Non vado mai al cinema", "I eat pizza", "go",
      "I am tired", "the">>

SentenceForms(a) == {a, a \o ".", a \o " and the sea", "sleepy"}

InitSentences ==
    \E i \in 1..Len(SentencePool), j \in 1..Len(SentencePool),
       qtype \in QuestionTypes :
        \E user \in SentenceForms(SentencePool[j]) :
            Call(user, SentencePool[i], qtype)

SpecSentences == InitSentences /\ [][Next]_vars

(* Two invocations at the same time, one in each of two workers *)

ConcurrentCalls ==
    {<<"low", "small/low", "none">>,
     <<"tiny", "small/low", "none">>,
     <<"xyz", "small/low", "none">>,
     <<"to il libro", "il libro", "none">>,
     <<"Non vado mai al cinema.", "Non vado mai al cinema", "negation">>,
     <<"the beach.", "the beach", "negation">>,
     <<"go", "I eat pizza", "sentence_translation">>,
     <<"I go to the beach", "I go to the beach every day", "sentence_translation">>,
     <<"I eat pizza", "I go to the beach", "sentence_translation">>}

InitConcurrent ==
    \E mine \in ConcurrentCalls, other \in ConcurrentCalls :
        /\ Entered(mine[1], mine[2], mine[3])
        /\ other_call = Frame(other[1], other[2], other[3], "Start")
        /\ script = <<>>
        /\ NoPractice

SpecConcurrent == InitConcurrent /\ [][NextConcurrent]_vars

(* Invocations run to their end.  The frames an invocation goes through   *)
(* are worked out with Step when it is entered and kept in script, so that *)
(* whether the next step is enabled is read off the state.                 *)

MaxSteps == 3

RunningCalls ==
    {<<user, correct, qtype>> :
        user \in {"", " ", "eat", "Non mangio."},
        correct \in {"", "/", "to eat/to consume", "non mangio"},
        qtype \in QuestionTypes}

\* The frames that follow f, up to the one that returns, n at most.
RECURSIVE StepsFrom(_, _)
StepsFrom(f, n) ==
    IF n = 0 \/ f.pc = "Decide" THEN <<>>
    ELSE LET next == Step(f) IN <<next>> \o StepsFrom(next, n - 1)

\* The invocation takes its next step.
Run ==
    /\ script # <<>>
    /\ pc' = Head(script).pc
    /\ user_normalized' = Head(script).user_normalized
    /\ correct_normalized' = Head(script).correct_normalized
    /\ user_with_digits' = Head(script).user_with_digits
    /\ correct_with_digits' = Head(script).correct_with_digits
    /\ user_with_words' = Head(script).user_with_words
    /\ correct_with_words' = Head(script).correct_with_words
    /\ is_correct' = Head(script).is_correct
    /\ display_answer' = Head(script).display_answer
    /\ rule' = Head(script).rule
    /\ script' = Tail(script)
    /\ UNCHANGED <<args, other_call, web>>

InitRunning ==
    \E c \in RunningCalls :
        /\ Entered(c[1], c[2], c[3])
        /\ other_call = NoCall
        /\ script = StepsFrom(Frame(c[1], c[2], c[3], "Start"), MaxSteps)
        /\ NoPractice

\* An invocation that has started keeps running: no step waits on anything.
SpecRunning == InitRunning /\ [][Run]_vars /\ WF_vars(Run)

(* Answers whose alternatives are separated by "/", ", " or "," *)

SeparatorAnswers ==
    {"under/below, beneath", "big,large", "under, below", "under/below"}

SeparatorForms ==
    {"under", "below", "beneath", "below, beneath", "big", "large", "big,large"}

InitSeparators ==
    \E user \in SeparatorForms, correct \in SeparatorAnswers,
       qtype \in QuestionTypes :
        Call(user, correct, qtype)

SpecSeparators == InitSeparators /\ [][Next]_vars

(* Texts with numbers in words and in digits, and words that contain one *)

NumberTexts ==
    {"27", "31", "127", "7", "twenty-seven", "twenty-one", "seven", "someone",
     "twenty-seven cats", "27 dogs"}

InitNumberTexts ==
    \E user \in NumberTexts, correct \in NumberTexts, qtype \in QuestionTypes :
        Call(user, correct, qtype)

SpecNumberTexts == InitNumberTexts /\ [][Next]_vars

(* Vocabulary answered with a synonym, with and without "to " and "the " *)

SynonymAnswers == {"friend", "mate", "to speak", "the friend"}

SynonymForms ==
    {"mate", "friend", "pal", "the mate", "talk", "say", "alk", "to talk",
     "to say", "speak"}

InitSynonyms ==
    \E user \in SynonymForms, correct \in SynonymAnswers,
       qtype \in QuestionTypes :
        Call(user, correct, qtype)

SpecSynonyms == InitSynonyms /\ [][Next]_vars

-----------------------------------------------------------------------------
(* The practice routes.  Every request is handled as a whole against the    *)
(* session; the browser sends them in any order.  Of the session only the  *)
(* keys of a practice that carry its questions and its score are kept      *)
(* (level, direction and start_time serve navigation and timing), and of   *)
(* the routes that start a practice the ones made by create_practice_route *)
(* (the others store the same keys).  Practices are started until          *)
(* MaxRecorded of them are recorded.                                       *)

MaxQuestions == 2
MaxSubmissions == 2
MaxAdvance == 3
MaxRecorded == 1

\* What the generators produce: a text, an answer specification, a type.
QuestionBank ==
    <<[question |-> "piccolo", answer |-> "small/low", type |-> "none"],
      [question |-> "Vado al mare.", answer |-> "I go to the beach",
       type |-> "sentence_translation"]>>

\* The generated lists: up to MaxQuestions questions, none when the level
\* has no exercise.
QuestionLists ==
    {[i \in 1..n |-> QuestionBank[((i - 1) % Len(QuestionBank)) + 1]] :
        n \in 0..MaxQuestions}

\* What the learner types into the answer field.
TypedAnswers == {" small ", "I go to the beach"}

\* check_answer(user_answer, question['answer'], question_type) at line 1308,
\* for each question and each typed answer.
checked ==
    [question \in ToSet(QuestionBank), typed \in TypedAnswers |->
        check_answer(strip(typed), question.answer, question.type)]

\* session.get(key, default)
SessionGet(key, default) ==
    IF key \in DOMAIN session THEN session[key] ELSE default

\* The keys that the start of a practice stores.
Started(practice_type, questions) ==
    [key \in {"practice_type", "questions", "current_question",
              "correct_count", "answers"} |->
        CASE key = "practice_type" -> practice_type
          [] key = "questions" -> questions
          [] key = "current_question" -> 0
          [] key = "correct_count" -> 0
          [] key = "answers" -> <<>>]

\* Mutant: the keys stay in the session.
Popped_nothing(keys) == session

\* session.pop(key, None) for each of the keys.
Popped(keys) == [key \in DOMAIN session \ keys |-> session[key]]

frame == <<args, locals, result, pc, other_call, script>>

\* POST to a route made by create_practice_route: no questions give the
\* error page, otherwise the practice is stored and the browser sent on.
route_handler ==
    \E questions \in QuestionLists :
        /\ Len(practice_sessions) < MaxRecorded
        /\ request' = "route_handler"
        /\ IF questions = <<>>
           THEN /\ response' = [page |-> "error"]
                /\ UNCHANGED session
           ELSE /\ session' = Started("verb_conjugation", questions)
                /\ response' = [page |-> "redirect", to |-> "practice_question"]
        /\ UNCHANGED <<practice_sessions, frame>>

practice_question ==
    /\ request' = "practice_question"
    /\ response' =
        IF "questions" \notin DOMAIN session
              \/ "current_question" \notin DOMAIN session
        THEN [page |-> "redirect", to |-> "home"]
        ELSE IF session["current_question"] >= Len(session["questions"])
        THEN [page |-> "redirect", to |-> "practice_summary"]
        ELSE IF session["questions"] = <<>>
        THEN [page |-> "error"]
        ELSE [page |-> "question",
              question |-> session["questions"][session["current_question"] + 1]]
    /\ UNCHANGED <<session, practice_sessions, frame>>

\* Mutant: every answer raises the score.
Scored_counting_every_answer(question, user, verdict) ==
    [session EXCEPT
        !["correct_count"] = @ + 1,
        !["answers"] = Append(@, [question |-> question.question,
                                  user_answer |-> user,
                                  correct_answer |-> verdict.display_answer,
                                  is_correct |-> verdict.is_correct])]

\* Lines 1306-1322: the score and the list of answers after a checked answer.
Scored(question, user, verdict) ==
    [session EXCEPT
        !["correct_count"] = IF verdict.is_correct THEN @ + 1 ELSE @,
        !["answers"] = Append(@, [question |-> question.question,
                                  user_answer |-> user,
                                  correct_answer |-> verdict.display_answer,
                                  is_correct |-> verdict.is_correct])]

submit_answer ==
    \E typed \in TypedAnswers :
        /\ request' = "submit_answer"
        /\ IF "questions" \notin DOMAIN session
           THEN /\ response' = [page |-> "redirect", to |-> "home"]
                /\ UNCHANGED session
           ELSE IF session["questions"] = <<>>
                     \/ SessionGet("current_question", 0)
                            >= Len(session["questions"])
           THEN /\ response' = [page |-> "error"]
                /\ UNCHANGED session
           ELSE /\ Len(session["answers"]) < MaxSubmissions
                /\ LET question ==
                           session["questions"][session["current_question"] + 1]
                   IN  /\ session' = Scored(question, strip(typed),
                                             checked[question, typed])
                       /\ response' =
                              [page |-> "feedback",
                               is_correct |-> checked[question, typed].is_correct,
                               correct_answer |->
                                   checked[question, typed].display_answer]
        /\ UNCHANGED <<practice_sessions, frame>>

next_question ==
    /\ request' = "next_question"
    /\ IF "questions" \notin DOMAIN session
       THEN /\ response' = [page |-> "redirect", to |-> "home"]
            /\ UNCHANGED session
       ELSE /\ SessionGet("current_question", 0) < MaxAdvance
            /\ session' = [session EXCEPT
                              !["current_question"] = @ + 1]
            /\ response' = [page |-> "redirect", to |-> "practice_question"]
    /\ UNCHANGED <<practice_sessions, frame>>

\* (correct_count / total_questions * 100) if total_questions > 0 else 0,
\* rounded down to a whole percentage.
accuracy(correct_count, total_questions) ==
    IF total_questions > 0 THEN (correct_count * 100) \div total_questions ELSE 0

practice_summary ==
    /\ request' = "practice_summary"
    /\ IF "questions" \notin DOMAIN session
       THEN /\ response' = [page |-> "redirect", to |-> "home"]
            /\ UNCHANGED <<session, practice_sessions>>
       ELSE LET questions == session["questions"]
                correct_count == SessionGet("correct_count", 0)
                total_questions == Len(questions)
            IN  /\ practice_sessions' =
                       Append(practice_sessions,
                              [session_type |->
                                   SessionGet("practice_type", "vocabulary_quiz"),
                               total_questions |-> total_questions,
                               correct_answers |-> correct_count])
                /\ response' =
                       [page |-> "summary",
                        correct |-> correct_count,
                        total |-> total_questions,
                        accuracy |-> accuracy(correct_count, total_questions),
                        session_id |-> Len(practice_sessions) + 1,
                        answers |-> SessionGet("answers", <<>>)]
                /\ session' = Popped({"questions", "current_question",
                                      "correct_count", "answers",
                                      "practice_type"})
    /\ UNCHANGED frame

NextPractice ==
    \/ route_handler
    \/ practice_question
    \/ submit_answer
    \/ next_question
    \/ practice_summary

\* A browser without a practice, and no call of check_answer under way.
InitPractice ==
    /\ NoPractice
    /\ other_call = NoCall
    /\ script = <<>>
    /\ user_answer = ""
    /\ correct_answer = ""
    /\ question_type = "none"
    /\ pc = "Idle"
    /\ user_normalized = ""
    /\ correct_normalized = ""
    /\ user_with_digits = ""
    /\ correct_with_digits = ""
    /\ user_with_words = ""
    /\ correct_with_words = ""
    /\ is_correct = FALSE
    /\ display_answer = ""
    /\ rule = "pending"

SpecPractice == InitPractice /\ [][NextPractice]_vars

-----------------------------------------------------------------------------
(* The alternatives of an answer specification as the specification of the *)
(* engine describes them: split on "/", or on ", " when there is no "/",   *)
(* empty pieces dropped.                                                   *)

RECURSIVE SplitOn(_, _, _)
SplitOn(rest, separator, cur) ==
    IF rest = "" THEN <<cur>>
    ELSE IF startswith(rest, separator)
         THEN <<cur>> \o SplitOn(DropPrefix(rest, Len(separator)), separator, "")
         ELSE SplitOn(Tail(rest), separator, cur \o Head(rest))

Alternatives(spec) ==
    SelectSeq(SplitOn(spec, IF "/" \in CharsOf(spec) THEN "/" ELSE ", ", ""),
              LAMBDA piece : piece # "")

Decided == pc = "Decide"

-----------------------------------------------------------------------------
(* Properties                                                              *)

\* C1: the display answer returned by check_answer is the literal first
\* alternative of correct_answer, whatever the user's answer, the question
\* type and the rule that produced the verdict.
C1_DisplayIsFirstAlternative ==
    Decided /\ Alternatives(correct_answer) # <<>>
        => display_answer = Alternatives(correct_answer)[1]

\* C2: an empty alternative is never an acceptable answer: an empty or blank
\* user_answer is judged incorrect whenever correct_answer has a non-empty
\* alternative.
C2_EmptyAnswerRejected ==
    Decided /\ strip(user_answer) = "" /\ Alternatives(correct_answer) # <<>>
        => ~is_correct

\* C3: a user answer identical, character for character, to a non-empty
\* correct_answer is judged correct, for every question type.
C3_IdenticalAnswerCorrect ==
    Decided /\ user_answer = correct_answer /\ correct_answer # ""
        => is_correct

\* C4: when correct_answer has several alternatives separated by "/", a user
\* answer equal after normalization to any one of them is judged correct,
\* whichever position the alternative has.
C4_AnyAlternativeCorrect ==
    Decided /\ "/" \in CharsOf(correct_answer)
        => \A k \in 1..Len(Alternatives(correct_answer)) :
               _norm(user_answer) = _norm(Alternatives(correct_answer)[k])
                   => is_correct

\* C5: check_answer("tiny", "small/low") is judged incorrect.
C5_TinyRejected ==
    Decided /\ user_answer = "tiny" /\ correct_answer = "small/low"
        => ~is_correct

SingleToken(alt) == alt # "" /\ CharsOf(alt) \cap WhitespaceChars = {}

\* C6: the infinitive marker is optional in both directions.  For every
\* alternative "to X" of correct_answer the answers "X" and "to X" are judged
\* correct, and for every single-token alternative X that does not start
\* with "l'" the answers "X" and "to X" are judged correct.
C6_InfinitiveMarkerOptional ==
    Decided =>
        \A k \in 1..Len(Alternatives(correct_answer)) :
            LET alt == Alternatives(correct_answer)[k]
                typed == _norm(user_answer)
            IN  /\ startswith(alt, "to ")
                       /\ typed \in {_norm(alt), _norm(DropPrefix(alt, 3))}
                   => is_correct
                /\ SingleToken(alt) /\ ~startswith(alt, "l'")
                       /\ typed \in {_norm(alt), "to " \o _norm(alt)}
                   => is_correct

C6_Witness ==
    /\ Decided
    /\ correct_answer = "to eat/to consume"
    /\ user_answer = "consume"
    /\ is_correct
    /\ rule = "variant"

StartsWithArticle(alt) ==
    \E k \in 1..Len(article_prefixes) : startswith(alt, article_prefixes[k])

\* C7: "to " is not accepted in front of a noun with an article: when an
\* alternative contains a space or starts with an Italian definite article,
\* the answer "to " + alternative is judged incorrect.
C7_ToBeforeArticleRejected ==
    Decided =>
        \A k \in 1..Len(Alternatives(correct_answer)) :
            LET alt == Alternatives(correct_answer)[k]
            IN  (" " \in CharsOf(alt) \/ StartsWithArticle(alt))
                    /\ user_answer = "to " \o alt
                => ~is_correct

Verdict(user, correct, qtype) == check_answer(user, correct, qtype).is_correct

\* C8: the verdict does not change when an accented vowel of the user answer
\* or of correct_answer is written as its plain vowel; "caffe" is correct for
\* "caffè", "citta" for "città" and "perche" for "perché".
C8_AccentFolding ==
    Decided =>
        /\ \A i \in 1..Len(AccentedVowels) :
               LET v == Char(AccentedVowels, i)
               IN  /\ v \in CharsOf(user_answer)
                       => Verdict(Unaccent(user_answer, v), correct_answer,
                                  question_type) = is_correct
                   /\ v \in CharsOf(correct_answer)
                       => Verdict(user_answer, Unaccent(correct_answer, v),
                                  question_type) = is_correct
        /\ <<user_answer, correct_answer>> \in
               {<<"caffe", "caffè">>, <<"citta", "città">>, <<"perche", "perché">>}
           => is_correct

C8_Witness ==
    /\ Decided
    /\ user_answer = "perche"
    /\ correct_answer = "perché"
    /\ is_correct
    /\ ~Verdict("xyz", "perché", question_type)

\* C9: the verdict does not depend on the letter case of the user answer nor
\* on blanks before or after it; "Month" and "  month  " are correct for
\* "month".
C9_CaseAndBlanksIgnored ==
    Decided =>
        /\ \A typed \in {ToUpper(user_answer), Capitalized(user_answer),
                         Padded(user_answer, MaxPad), " " \o user_answer,
                         user_answer \o "\t"} :
               Verdict(typed, correct_answer, question_type) = is_correct
        /\ user_answer \in {"Month", "  month  "} /\ correct_answer = "month"
           => is_correct

C9_Witness ==
    /\ Decided
    /\ user_answer = "  month  "
    /\ correct_answer = "month"
    /\ is_correct
    /\ Verdict("MONTH", "month", question_type)

\* C10: for every entry (word, digits) of the number map, the digits are a
\* correct answer for the word and the word is a correct answer for the digits.
C10_NumberEquivalence ==
    Decided =>
        \A k \in 1..Len(number_words) :
            \/ user_answer = number_words[k][2] /\ correct_answer = number_words[k][1]
            \/ user_answer = number_words[k][1] /\ correct_answer = number_words[k][2]
            => is_correct

C10_Witness ==
    /\ Decided
    /\ user_answer = "twenty-seven"
    /\ correct_answer = "27"
    /\ question_type = "none"
    /\ is_correct

\* C11: apostrophe spacing is ignored on both sides: every alternative of
\* correct_answer is normalized like the user answer, so an answer and an
\* alternative that differ only in the blanks after an apostrophe compare
\* equal and the answer is judged correct ("l' isola" for "l'isola" and
\* "l'isola" for "l' isola").
C11_ApostropheSpacingIgnored ==
    Decided =>
        \A k \in 1..Len(Alternatives(correct_answer)) :
            AfterApostrophe(_norm(user_answer), 0)
                    = AfterApostrophe(_norm(Alternatives(correct_answer)[k]), 0)
                => is_correct

\* C12: the normalizer _norm is idempotent: normalizing a normalized string
\* leaves it unchanged.
C12_NormIdempotent ==
    pc # "Start" =>
        /\ user_normalized = _norm(user_answer)
        /\ correct_normalized = _norm(correct_answer)
        /\ _norm(user_normalized) = user_normalized
        /\ _norm(correct_normalized) = correct_normalized

C12_Witness ==
    /\ pc = "BranchByCategory"
    /\ user_answer = " L'  ETÀ "
    /\ user_normalized = "l'eta"
    /\ correct_answer = "dell'acqua/l'  età"
    /\ correct_normalized = "dell'acqua/l'eta"

Tokens(s) == ToSet(split(_norm(s)))

RECURSIVE Unpunctuated(_)
Unpunctuated(s) ==
    IF s = "" THEN ""
    ELSE IF Head(s) \in Punctuation THEN Unpunctuated(Tail(s))
         ELSE Head(s) \o Unpunctuated(Tail(s))

\* C14: under question_type "negation" an answer that equals correct_answer
\* after normalization and removal of all punctuation is judged correct,
\* whatever punctuation either side carries.
C14_NegationIgnoresPunctuation ==
    Decided /\ question_type = "negation"
            /\ Unpunctuated(_norm(user_answer)) = Unpunctuated(_norm(correct_answer))
        => is_correct

C14_Witness ==
    /\ Decided
    /\ question_type = "negation"
    /\ user_answer = "Non vado mai al cinema."
    /\ correct_answer = "Non vado mai al cinema"
    /\ is_correct
    /\ rule = "negation"
    /\ ~Verdict(user_answer, correct_answer, "none")

\* The content tokens of an answer: what is left of it after normalization,
\* word-to-digit conversion, removal of punctuation and of stopwords.
ContentTokens(s) ==
    SelectSeq(split(Unpunctuated(normalize_numbers(_norm(s)))),
              LAMBDA w : w \notin stopwords)

\* The token w, or one of its curated synonyms, is among the tokens.
PresentIn(w, tokens) ==
    \/ InList(w, tokens)
    \/ \E k \in 1..Len(Get(synonyms, w)) : InList(Get(synonyms, w)[k], tokens)

\* C15: under question_type "sentence_translation" an answer is judged
\* correct whenever at least half of the content tokens of correct_answer,
\* counted with multiplicity, are present among the content tokens of the
\* answer, directly or through a curated synonym; exactly half is enough.
\* (The share is defined when correct_answer has a content token.)
C15_HalfOfContentTokensAccepted ==
    Decided /\ question_type = "sentence_translation" =>
        LET user_tokens == ContentTokens(user_answer)
            correct_tokens == ContentTokens(correct_answer)
            present == {k \in 1..Len(correct_tokens) :
                            PresentIn(correct_tokens[k], user_tokens)}
        IN  Len(correct_tokens) > 0
                /\ 2 * Cardinality(present) >= Len(correct_tokens)
            => is_correct

C15_Witness ==
    /\ Decided
    /\ question_type = "sentence_translation"
    /\ user_answer = "I go to the beach"
    /\ correct_answer = "I go to the beach every day"
    /\ ContentTokens(user_answer) = <<"go", "beach">>
    /\ ContentTokens(correct_answer) = <<"go", "beach", "every", "day">>
    /\ is_correct
    /\ rule = "sentence_forward"
    /\ ~Verdict(user_answer, correct_answer, "none")

\* C16: in the reverse score of the sentence_translation path a token of the
\* answer counts only if it, or one of its curated synonyms, is among the
\* content tokens of correct_answer; an answer none of whose content tokens
\* counts has reverse similarity 0 and is not accepted by the reverse score.
C16_ReverseScoreNeedsSharedToken ==
    Decided /\ question_type = "sentence_translation" =>
        LET user_tokens == ContentTokens(user_answer)
            correct_tokens == ContentTokens(correct_answer)
        IN  (\A k \in 1..Len(user_tokens) :
                 ~PresentIn(user_tokens[k], correct_tokens))
            => rule # "sentence_reverse"

\* C17: the category paths only add acceptance: an answer judged correct
\* with no question type is also judged correct with question_type
\* "sentence_translation" and with question_type "negation".
C17_CategoriesOnlyAddAcceptance ==
    Decided /\ question_type \in {"sentence_translation", "negation"}
            /\ Verdict(user_answer, correct_answer, "none")
        => is_correct

C17_Witness ==
    /\ Decided
    /\ question_type = "negation"
    /\ user_answer = "eat"
    /\ correct_answer = "to eat/to consume"
    /\ Verdict(user_answer, correct_answer, "none")
    /\ ~negation_accepts(user_normalized, correct_normalized)
    /\ is_correct
    /\ rule = "variant"

\* C18: check_answer is a pure function.  Whatever the interleaving of two
\* invocations running at the same time, each returns what check_answer
\* gives for its own arguments alone.
C18_PureUnderInterleaving ==
    /\ Decided =>
           /\ is_correct = Verdict(user_answer, correct_answer, question_type)
           /\ display_answer
                  = check_answer(user_answer, correct_answer, question_type).display_answer
    /\ other_call.pc = "Decide" =>
           /\ other_call.is_correct
                  = Verdict(other_call.user_answer, other_call.correct_answer,
                            other_call.question_type)
           /\ other_call.display_answer
                  = check_answer(other_call.user_answer, other_call.correct_answer,
                                 other_call.question_type).display_answer

C18_Witness ==
    /\ Decided
    /\ other_call.pc = "Decide"
    /\ user_answer = "low" /\ correct_answer = "small/low"
    /\ other_call.user_answer = "xyz" /\ other_call.correct_answer = "small/low"
    /\ is_correct
    /\ ~other_call.is_correct

\* C19: check_answer is total: for every pair of strings, the empty string
\* included, and every question type it goes from Start through Normalize
\* and BranchByCategory to Decide, where it returns a boolean and a string,
\* and it has no other outcome.
C19_Total ==
    /\ [](pc \in {"Start", "BranchByCategory", "Standard", "Decide"})
    /\ (pc = "Start") ~> (pc = "BranchByCategory")
    /\ (pc = "BranchByCategory") ~> Decided
    /\ [](Decided => is_correct \in BOOLEAN /\ rule # "pending"
                         /\ Len(display_answer) <= Len(correct_answer))

C19_Witness ==
    /\ Decided
    /\ user_answer = ""
    /\ correct_answer = ""
    /\ is_correct \in BOOLEAN

NonEmpty(pieces) == SelectSeq(pieces, LAMBDA piece : piece # "")

\* C20: the alternatives of correct_answer are its pieces between "/" when
\* it contains a "/", and otherwise its pieces between ", ": a comma is no
\* separator when a "/" is present, and a comma that no space follows is
\* never a separator.
C20_SplitOnSlashElseCommaSpace ==
    Decided =>
        /\ NonEmpty(raw_answers(correct_answer)) = Alternatives(correct_answer)
        /\ display_answer \in {correct_answer, Alternatives(correct_answer)[1]}


\* C21: normalize_numbers replaces every whole-word number word by its digit
\* string, the hyphenated compounds included: an answer that is a key of
\* number_words ("twenty-seven") is converted to that key's digits ("27"),
\* and a word that only contains a number word ("someone") stays as it is.
C21_WordsToDigits ==
    pc # "Start" =>
        /\ \A k \in 1..Len(number_words) :
               user_normalized = number_words[k][1]
                   => user_with_digits = number_words[k][2]
        /\ user_normalized = "someone" => user_with_digits = "someone"

\* All digits, and at least one.
DigitString(s) == s # "" /\ \A i \in 1..Len(s) : Char(s, i) \in CharsOf(DigitChars)

\* C22: denormalize_numbers goes through the digit keys from the longest to
\* the shortest and never replaces a part of a run of digits: a digit string
\* that is a key of the number map becomes that key's word ("27" becomes
\* "twenty-seven"), and one that is no key ("31", "127") stays as it is.
C22_DigitsToWords ==
    /\ \A i, j \in 1..Len(sorted_digits) :
           i < j => Len(sorted_digits[i][1]) >= Len(sorted_digits[j][1])
    /\ pc # "Start" /\ DigitString(user_normalized) =>
           IF \E k \in 1..Len(number_words) : number_words[k][2] = user_normalized
           THEN \E k \in 1..Len(number_words) :
                    /\ number_words[k][2] = user_normalized
                    /\ user_with_words = number_words[k][1]
           ELSE user_with_words = user_normalized

C22_Witness ==
    /\ Decided
    /\ user_answer = "27"
    /\ user_with_words = "twenty-seven"
    /\ correct_answer = "127"
    /\ correct_with_words = "127"

\* The synonyms that vocab_synonyms lists under key.
ListedFor(key) == ToSet(Get(vocab_synonyms, key))

\* C23: synonyms are resolved in both directions: an answer is correct when
\* it is listed as a synonym of an alternative of correct_answer, and also
\* when an alternative is listed as a synonym of the answer, so that an entry
\* listed one way only ("friend" lists "mate", "mate" has no entry) makes
\* both "mate" for "friend" and "friend" for "mate" correct.
C23_SynonymsBothDirections ==
    Decided =>
        \A i \in 1..Len(Alternatives(correct_answer)) :
            LET alt == _norm(Alternatives(correct_answer)[i])
                user == _norm(user_answer)
            IN  user \in ListedFor(alt) \/ alt \in ListedFor(user) => is_correct

WithoutThe(s) == IF startswith(s, "the ") THEN DropPrefix(s, 4) ELSE s

\* C24: the synonym check ignores the infinitive marker and the article: an
\* answer that equals a synonym listed for an alternative of correct_answer
\* once a leading "to " is removed from both, or a leading "the " from both,
\* is correct ("talk" and "say" for "to speak", which lists "to talk" and
\* "to say").
C24_SynonymsIgnoreToAndThe ==
    Decided =>
        \A i \in 1..Len(Alternatives(correct_answer)) :
            \A s \in ListedFor(_norm(Alternatives(correct_answer)[i])) :
                \/ WithoutTo(_norm(user_answer)) = WithoutTo(s)
                \/ WithoutThe(_norm(user_answer)) = WithoutThe(s)
                => is_correct

\* The forms of s with at most a leading "to " or "the " removed.
BareForms(s) == {s, WithoutTo(s), WithoutThe(s)}

\* C25: the synonym step is sound: an answer it accepts equals, with at most
\* a leading "to " or "the " removed from both, a synonym that vocab_synonyms
\* lists for an acceptable alternative (under the alternative itself or under
\* it with or without such a prefix); a string that is no listed synonym
\* ("alk" for "to speak") is not accepted by it.
C25_SynonymStepSound ==
    Decided /\ rule = "synonym" =>
        \E acc \in ToSet(all_acceptable(correct_answer)) :
            \E key \in DOMAIN vocab_synonyms :
                /\ BareForms(key) \cap BareForms(acc) # {}
                /\ \E s \in ListedFor(key) :
                       \/ user_normalized = s
                       \/ WithoutTo(user_normalized) = WithoutTo(s)
                       \/ WithoutThe(user_normalized) = WithoutThe(s)

PracticeRoutes ==
    {"practice_summary", "practice_question", "submit_answer", "next_question"}

Home == [page |-> "redirect", to |-> "home"]

InPractice == "questions" \in DOMAIN session

\* C26: each question of a practice is scored at most once: whatever
\* submit_answer and next_question requests follow its start, correct_count
\* never exceeds the number of questions, answers never holds more entries
\* than there are questions, and the accuracy of the summary never exceeds
\* 100 per cent.
C26_EachQuestionScoredOnce ==
    /\ InPractice =>
           /\ session["correct_count"] <= Len(session["questions"])
           /\ Len(session["answers"]) <= Len(session["questions"])
    /\ response.page = "summary" => response.accuracy <= 100

\* C27: in every state of a practice, correct_count is the number of entries
\* of answers whose is_correct is true.
C27_ScoreCountsCorrectAnswers ==
    InPractice =>
        session["correct_count"] =
            Cardinality({i \in 1..Len(session["answers"]) :
                             session["answers"][i].is_correct})

C27_Witness ==
    /\ InPractice
    /\ request = "next_question"
    /\ Len(session["answers"]) = 2
    /\ session["answers"][1].is_correct
    /\ ~session["answers"][2].is_correct
    /\ session["correct_count"] = 1

\* C28: a practice is recorded in the database only once every question has
\* been presented: a row is added to practice_sessions only in a step taken
\* with current_question >= len(questions).
C28_RecordedOnlyWhenComplete ==
    [][practice_sessions' # practice_sessions =>
           /\ InPractice
           /\ session["current_question"] >= Len(session["questions"])]_vars

\* C29: a started practice is recorded at most once: the step that adds a
\* row to practice_sessions is taken in a practice, adds one row and clears
\* the practice from the session, and without a practice in the session a
\* request to practice_summary, practice_question, submit_answer or
\* next_question is answered with the redirect to home and leaves the
\* session and the recorded rows as they are.
C29_RecordedAtMostOnce ==
    [][/\ practice_sessions' # practice_sessions =>
              /\ InPractice
              /\ Len(practice_sessions') = Len(practice_sessions) + 1
              /\ SubSeq(practice_sessions', 1, Len(practice_sessions))
                     = practice_sessions
              /\ "questions" \notin DOMAIN session'
       /\ ~InPractice /\ request' \in PracticeRoutes =>
              /\ response' = Home
              /\ session' = session
              /\ practice_sessions' = practice_sessions]_vars

C29_Witness ==
    /\ ~InPractice
    /\ Len(practice_sessions) = 1
    /\ request = "submit_answer"
    /\ response = Home
=============================================================================
